---- MODULE Spec2Model ----
(***************************************************************************)
(* Conway's game of life on a BOUND x BOUND torus (src/conway.py).         *)
(* A board is a Python set of (x, y) tuples.  Sets are mutable objects, so *)
(* boards live in a heap (a sequence of sets indexed by reference) and     *)
(* iterate is modelled on the heap: it allocates next_board and adds to it *)
(* while it reads the board it was passed.                                 *)
(***************************************************************************)
EXTENDS Integers, Sequences, FiniteSets, TLC

VARIABLES heap, mainboard, seed, gen, last, before, op, args, ret

vars == <<heap, mainboard, seed, gen, last, before, op, args, ret>>

driverVars == <<heap, mainboard, seed, gen, last, before>>

callVars == <<op, args, ret>>

(* ------------------------------ constants ----------------------------- *)

BOUND == 15

spinner == {<<1, 0>>, <<1, 1>>, <<1, 2>>}

glider == {<<9, 6>>, <<9, 7>>, <<9, 8>>, <<10, 6>>, <<11, 7>>}

beehive == {<<1, 10>>, <<2, 9>>, <<2, 11>>, <<3, 9>>, <<3, 11>>, <<4, 10>>}

spinnersplosion == {<<6, 7>>, <<7, 7>>, <<8, 7>>, <<7, 9>>}

\* The module-level set objects, in definition order, followed by the
\* default argument of _main, which Python builds once at definition time.
Globals == <<spinner, glider, beehive, spinnersplosion, spinner \cup glider>>

\* range(BOUND) x range(BOUND)
Grid == (0 .. BOUND - 1) \X (0 .. BOUND - 1)

(* ------------------------------- bounds ------------------------------- *)

\* number of generations the driver loop is followed for
MaxGen == 4

\* how far outside the grid the coordinates of literal boards and of
\* locations reach
Margin == 1

\* cell_next_state is applied to neighbors in -MaxNeighbors .. MaxNeighbors
MaxNeighbors == 30

\* bound parameters are drawn from -MaxBound .. MaxBound (and 12, BOUND)
MaxBound == 3

\* shifts are drawn from -MaxShift .. MaxShift in each direction
MaxShift == 1

(* ------------------------- Python's % operator ------------------------ *)

ZeroDivisionError == [err |-> "ZeroDivisionError"]

Ok(v) == [err |-> "none", val |-> v]

\* (mutant) the remainder takes the sign of the dividend, as C's % does
PyMod_truncated(a, b) ==
    LET m == IF b > 0 THEN b ELSE 0 - b
    IN  IF a >= 0 THEN a % m ELSE 0 - ((0 - a) % m)

\* a % b for Python ints with b # 0: the result has the sign of b
PyMod(a, b) == IF b > 0 THEN a % b ELSE 0 - ((0 - a) % (0 - b))

(* ---------------------------- cell_next_state -------------------------- *)

\* (mutant) a live cell survives on 2 or more neighbours
cell_next_state_at_least_two(alive, neighbors) ==
    IF alive THEN neighbors >= 2 ELSE neighbors = 3

cell_next_state(alive, neighbors) ==
    IF alive THEN neighbors \in {2, 3} ELSE neighbors = 3

(* ------------------------------- is_alive ------------------------------ *)

is_alive(location, board) == location \in board

(* ----------------------------- get_neighbors --------------------------- *)

Offsets == <<-1, 0, 1>>

\* (mutant) the location itself is not skipped
RECURSIVE get_neighbors_loop_with_self(_, _, _, _)
get_neighbors_loop_with_self(location, bound, i, neighbors) ==
    IF i = 9 THEN neighbors
    ELSE get_neighbors_loop_with_self(location, bound, i + 1,
             Append(neighbors,
                    <<PyMod(location[1] + Offsets[(i \div 3) + 1], bound),
                      PyMod(location[2] + Offsets[(i % 3) + 1], bound)>>))

\* The nested for loops, flattened: iteration i in 0 .. 8 has
\* offset_x = Offsets[i \div 3 + 1] and offset_y = Offsets[i % 3 + 1].
RECURSIVE get_neighbors_loop(_, _, _, _)
get_neighbors_loop(location, bound, i, neighbors) ==
    IF i = 9 THEN neighbors
    ELSE LET offset_x == Offsets[(i \div 3) + 1]
             offset_y == Offsets[(i % 3) + 1]
             nx == PyMod(location[1] + offset_x, bound)
             ny == PyMod(location[2] + offset_y, bound)
         IN  IF <<nx, ny>> = location
             THEN get_neighbors_loop(location, bound, i + 1, neighbors)
             ELSE get_neighbors_loop(location, bound, i + 1,
                                     Append(neighbors, <<nx, ny>>))

\* (mutant) the % bound is left out: no wraparound
get_neighbors_unwrapped(location, bound) ==
    Ok([k \in 1 .. 8 |->
          LET i == IF k <= 4 THEN k - 1 ELSE k
          IN  <<location[1] + Offsets[(i \div 3) + 1],
                location[2] + Offsets[(i % 3) + 1]>>])

\* The first % of the first iteration raises when bound is 0.
get_neighbors(location, bound) ==
    IF bound = 0 THEN ZeroDivisionError
    ELSE Ok(get_neighbors_loop(location, bound, 0, <<>>))

(* -------------------------- neighbors_generator ------------------------ *)

OffsetPairs == [i \in 1 .. 9 |-> <<Offsets[((i - 1) \div 3) + 1], Offsets[((i - 1) % 3) + 1]>>]

NotCenter(o) == ~(o[1] = 0 /\ o[2] = 0)

\* tuple(neighbors_generator(location, bound)): the generator consumed to
\* its end.  The first element already needs a %, so bound = 0 raises before
\* anything is yielded.
neighbors_generator(location, bound) ==
    IF bound = 0 THEN ZeroDivisionError
    ELSE LET kept == SelectSeq(OffsetPairs, NotCenter)
         IN  Ok([k \in 1 .. Len(kept) |->
                    <<PyMod(location[1] + kept[k][1], bound),
                      PyMod(location[2] + kept[k][2], bound)>>])

(* ----------------------------- neighbor_count -------------------------- *)

RECURSIVE neighbor_count_loop(_, _, _, _)
neighbor_count_loop(neighbors, board, k, count) ==
    IF k > Len(neighbors) THEN count
    ELSE neighbor_count_loop(neighbors, board, k + 1,
             IF is_alive(neighbors[k], board) THEN count + 1 ELSE count)

\* get_neighbors(location) is called with its default bound=BOUND
neighbor_count(location, board) ==
    neighbor_count_loop(get_neighbors(location, BOUND).val, board, 1, 0)

(* -------------------------------- iterate ------------------------------ *)

\* (mutant) only the cells alive in the board are looked at
iterate_body_live_only(h, b, nb, location) ==
    IF /\ is_alive(location, h[b])
       /\ cell_next_state(TRUE, neighbor_count(location, h[b]))
    THEN [h EXCEPT ![nb] = @ \cup {location}]
    ELSE h

\* The body of the for loop for one location: next_board.add(location) when
\* cell_next_state says so.  h is the heap, b the reference of the board
\* passed in, nb the reference of next_board.
iterate_body(h, b, nb, location) ==
    IF cell_next_state(is_alive(location, h[b]), neighbor_count(location, h[b]))
    THEN [h EXCEPT ![nb] = @ \cup {location}]
    ELSE h

\* for y in range(BOUND), at a given x, from y on.  (The test on DOMAIN is
\* always true: it makes TLC compute h1 before it descends.)
RECURSIVE iterate_ys(_, _, _, _, _)
iterate_ys(h, b, nb, x, y) ==
    IF y = BOUND THEN h
    ELSE LET h1 == iterate_body(h, b, nb, <<x, y>>)
         IN  IF nb \in DOMAIN h1 THEN iterate_ys(h1, b, nb, x, y + 1) ELSE h1

\* (mutant) for x in range(BOUND + 1)
RECURSIVE iterate_xs_one_more(_, _, _, _)
iterate_xs_one_more(h, b, nb, x) ==
    IF x = BOUND + 1 THEN h
    ELSE LET h1 == iterate_ys(h, b, nb, x, 0)
         IN  IF nb \in DOMAIN h1 THEN iterate_xs_one_more(h1, b, nb, x + 1) ELSE h1

\* for x in range(BOUND), from x on
RECURSIVE iterate_xs(_, _, _, _)
iterate_xs(h, b, nb, x) ==
    IF x = BOUND THEN h
    ELSE LET h1 == iterate_ys(h, b, nb, x, 0)
         IN  IF nb \in DOMAIN h1 THEN iterate_xs(h1, b, nb, x + 1) ELSE h1

\* (mutant) next_board = board: the set passed in is edited directly
iterate_in_place(h, b) ==
    [heap |-> iterate_xs(h, b, b, 0), ret |-> b]

\* iterate(board) on heap h: next_board = set() is a new object; the result
\* is the heap after the loop and the reference returned.
iterate(h, b) ==
    LET nb == Len(h) + 1
    IN  [heap |-> iterate_xs(Append(h, {}), b, nb, 0), ret |-> nb]

(* ----------------------------- literal boards -------------------------- *)

Coords == (0 - Margin) .. (BOUND - 1 + Margin)

\* the two coordinates at the seam of the torus and their aliases Margin
\* outside the grid
SeamCoords == {0 - Margin, 0, BOUND - 1, BOUND - 1 + Margin}

SeamCells == SeamCoords \X {BOUND - 1, 0}

\* every board of one, two or three seam cells
SmallBoards == {{a, b, c} : a \in SeamCells, b \in SeamCells, c \in SeamCells}

block == {<<5, 5>>, <<5, 6>>, <<6, 5>>, <<6, 6>>}

LiteralBoards ==
    {{}, block, Grid, Coords \X Coords,
     spinner \cup {<<BOUND, 1>>}, glider \cup {<<-1, 7>>, <<BOUND, BOUND>>},
     {<<0, BOUND - 1>>, <<0, 0>>, <<0, 1>>},
     {<<BOUND - 1, 0>>, <<0, 0>>, <<1, 0>>},
     {<<-1, 0>>, <<0, 0>>, <<1, 0>>, <<0, 1>>}}
    \cup SmallBoards

(* ------------------------------ the driver ----------------------------- *)

\* The record of an iterate call: the generation and reference of the board
\* passed, its contents before and after the call, the reference returned
\* and the contents of the returned set.
NoCall == [of |-> -1, arg |-> 0, pre |-> {}, post |-> {}, ret |-> 0, val |-> {}]

CallRecord(h, g, b, r) ==
    [of |-> g, arg |-> b, pre |-> h[b], post |-> r.heap[b],
     ret |-> r.ret, val |-> r.heap[r.ret]]

IdleCall == /\ op = "none"
            /\ args = <<>>
            /\ ret = <<>>

\* An object stays referenced while a module-level name or the board
\* parameter of _main is bound to it.
Pinned(r) == r <= Len(Globals) \/ r = seed

\* del of the object at reference r: the references above it move down
Free(h, r) == [i \in 1 .. Len(h) - 1 |-> IF i < r THEN h[i] ELSE h[i + 1]]

\* _main(board): board is one of the module's objects (the default argument
\* among them) or a set built by the caller.
Init ==
    /\ \/ /\ heap = Globals
          /\ mainboard \in 1 .. Len(Globals)
       \/ \E lit \in LiteralBoards :
             /\ heap = Append(Globals, lit)
             /\ mainboard = Len(Globals) + 1
    /\ seed = mainboard
    /\ gen = 0
    /\ last = NoCall
    /\ before = NoCall
    /\ IdleCall

\* mainboard = iterate(mainboard): the name is rebound to the set returned,
\* and the set it was bound to is dropped unless another name holds it.
MainStep ==
    /\ gen < MaxGen
    /\ \E r \in {iterate(heap, mainboard)} :
       LET dropped == ~Pinned(mainboard) /\ r.ret # mainboard
       IN  /\ heap' = IF dropped THEN Free(r.heap, mainboard) ELSE r.heap
           /\ mainboard' = IF dropped /\ r.ret > mainboard THEN r.ret - 1 ELSE r.ret
           /\ before' = last
           /\ last' = CallRecord(heap, gen, mainboard, r)
    /\ gen' = gen + 1
    /\ UNCHANGED <<seed, callVars>>

\* iterate(mainboard) with the value only looked at, as the doctest does:
\* no name is bound to the set returned, so it is dropped at once.
IterateCall ==
    /\ gen < MaxGen
    /\ last.of # gen
    /\ \E r \in {iterate(heap, mainboard)} :
       LET dropped == ~Pinned(r.ret) /\ r.ret # mainboard
       IN  /\ heap' = IF dropped THEN Free(r.heap, r.ret) ELSE r.heap
           /\ before' = last
           /\ last' = CallRecord(heap, gen, mainboard, r)
    /\ UNCHANGED <<mainboard, seed, gen, callVars>>

Next == MainStep \/ IterateCall

Spec == Init /\ [][Next]_vars

(* --------------------------- cell_next_state calls --------------------- *)

NeighborValues == (0 - MaxNeighbors) .. MaxNeighbors

InitRule ==
    /\ heap = Globals
    /\ mainboard = Len(Globals)
    /\ seed = mainboard
    /\ gen = 0
    /\ last = NoCall
    /\ before = NoCall
    /\ op = "none"
    /\ args \in [alive : BOOLEAN, neighbors : NeighborValues]
    /\ ret = <<>>

CallCellNextState ==
    /\ op = "none"
    /\ op' = "cell_next_state"
    /\ ret' = cell_next_state(args.alive, args.neighbors)
    /\ UNCHANGED <<args, driverVars>>

NextRule == CallCellNextState

SpecRule == InitRule /\ [][NextRule]_vars

(* ------------------------- neighbour enumeration calls ----------------- *)

Locations == Coords \X Coords

Bounds == ((0 - MaxBound) .. MaxBound) \cup {12, BOUND}

testboard == {<<0, 0>>, <<2, 1>>}

CountBoards == {{}, testboard, (0 .. 2) \X (0 .. 2), spinner, Grid, Coords \X Coords}

InitNeighbors ==
    /\ heap = Globals
    /\ mainboard = Len(Globals)
    /\ seed = mainboard
    /\ gen = 0
    /\ last = NoCall
    /\ before = NoCall
    /\ op = "none"
    /\ \/ args \in [location : Locations, bound : Bounds]
       \/ args \in [location : Locations, board : CountBoards]
    /\ ret = <<>>

CallGetNeighbors ==
    /\ op = "none"
    /\ "bound" \in DOMAIN args
    /\ op' = "get_neighbors"
    /\ ret' = get_neighbors(args.location, args.bound)
    /\ UNCHANGED <<args, driverVars>>

\* tuple(neighbors_generator(location, bound))
CallNeighborsGenerator ==
    /\ op = "none"
    /\ "bound" \in DOMAIN args
    /\ op' = "neighbors_generator"
    /\ ret' = neighbors_generator(args.location, args.bound)
    /\ UNCHANGED <<args, driverVars>>

CallNeighborCount ==
    /\ op = "none"
    /\ "board" \in DOMAIN args
    /\ op' = "neighbor_count"
    /\ ret' = neighbor_count(args.location, args.board)
    /\ UNCHANGED <<args, driverVars>>

NextNeighbors == CallGetNeighbors \/ CallNeighborsGenerator \/ CallNeighborCount

SpecNeighbors == InitNeighbors /\ [][NextNeighbors]_vars

(* ------------------------- iterate and translation --------------------- *)

\* the board moved by shift s on the torus
Shift(board, s) ==
    {<<(c[1] + s[1]) % BOUND, (c[2] + s[2]) % BOUND>> : c \in board}

\* the value of iterate(board) for a board held by the caller alone
IterateValue(board) ==
    LET r == iterate(<<board>>, 1) IN r.heap[r.ret]

Shifts ==
    (((0 - MaxShift) .. MaxShift) \X ((0 - MaxShift) .. MaxShift))
    \cup {<<BOUND - 1, BOUND>>, <<0 - BOUND - 1, 7>>}

ShiftBoards ==
    {spinner, glider, spinner \cup glider, spinnersplosion, block,
     {<<0, 0>>, <<BOUND - 1, 0>>, <<0, BOUND - 1>>},
     {<<BOUND - 1, BOUND - 2>>, <<BOUND - 1, BOUND - 1>>, <<BOUND - 1, 0>>}}

NotRun == [err |-> "not run"]

InitShift ==
    /\ heap = Globals
    /\ mainboard = Len(Globals)
    /\ seed = mainboard
    /\ gen = 0
    /\ last = NoCall
    /\ before = NoCall
    /\ op = "none"
    /\ args \in [board : ShiftBoards, shift : Shifts]
    /\ ret = [shifted_then_iterated |-> NotRun, iterated_then_shifted |-> NotRun]

ShiftThenIterate ==
    /\ ret.shifted_then_iterated = NotRun
    /\ ret' = [ret EXCEPT !.shifted_then_iterated =
                              Ok(IterateValue(Shift(args.board, args.shift)))]
    /\ op' = "iterate"
    /\ UNCHANGED <<args, driverVars>>

IterateThenShift ==
    /\ ret.iterated_then_shifted = NotRun
    /\ ret' = [ret EXCEPT !.iterated_then_shifted =
                              Ok(Shift(IterateValue(args.board), args.shift))]
    /\ op' = "iterate"
    /\ UNCHANGED <<args, driverVars>>

NextShift == ShiftThenIterate \/ IterateThenShift

SpecShift == InitShift /\ [][NextShift]_vars

(* ================================ claims =============================== *)

Called == last.of >= 0

\* C1: the set iterate returns is exactly the set of grid coordinates for
\* which cell_next_state(is_alive, neighbor_count), both taken on the board
\* as it was passed, is true; in particular a dead cell with exactly 3 live
\* neighbours is in the result.
C1_IterateIsRuleOverGrid ==
    Called =>
        /\ last.val \subseteq Grid
        /\ \A location \in Grid :
              \E n \in {neighbor_count(location, last.pre)} :
                 /\ location \in last.val <=>
                        cell_next_state(is_alive(location, last.pre), n)
                 /\ (location \notin last.pre /\ n = 3) => location \in last.val

C1_Witness ==
    /\ Called
    /\ last.pre = spinner
    /\ <<0, 1>> \in last.val
    /\ <<1, 0>> \notin last.val

\* C2: cell_next_state(alive, neighbors) is true iff (alive and neighbors is
\* 2 or 3) or (not alive and neighbors is 3), for every integer neighbors.
C2_RuleIsB3S23 ==
    op = "cell_next_state" =>
        ret = (\/ args.alive /\ (args.neighbors = 2 \/ args.neighbors = 3)
               \/ ~args.alive /\ args.neighbors = 3)

C2_Witness ==
    /\ op = "cell_next_state"
    /\ args.alive
    /\ args.neighbors = 9
    /\ ret = FALSE

\* the offsets in the order the claim lists them
ClaimOffsets ==
    <<<<-1, -1>>, <<-1, 0>>, <<-1, 1>>, <<0, -1>>,
      <<0, 1>>, <<1, -1>>, <<1, 0>>, <<1, 1>>>>

ClaimNeighbors(location, bound) ==
    [k \in 1 .. 8 |-> <<(location[1] + ClaimOffsets[k][1]) % bound,
                        (location[2] + ClaimOffsets[k][2]) % bound>>]

\* C3: for any integer location and any positive bound, get_neighbors
\* returns exactly the 8 coordinates ((x+dx) mod bound, (y+dy) mod bound) in
\* the listed offset order, leaving out only the (0,0) offset.
C3_GetNeighborsEightWrapped ==
    (op = "get_neighbors" /\ args.bound > 0) =>
        ret = Ok(ClaimNeighbors(args.location, args.bound))

\* the set of the 8 wrapped neighbouring coordinates at grid size BOUND
WrappedNeighbors(location) ==
    {ClaimNeighbors(location, BOUND)[k] : k \in 1 .. 8}

\* C4: neighbor_count(location, board) is the number of the 8 wrapped
\* neighbouring coordinates of the location that are in the board, does not
\* count the location itself, and lies in 0 .. 8, for every location.
C4_NeighborCountOfEight ==
    op = "neighbor_count" =>
        /\ ret = Cardinality({n \in WrappedNeighbors(args.location) : n \in args.board})
        /\ ret \in 0 .. 8
        /\ neighbor_count(args.location, args.board \cup {args.location})
             = neighbor_count(args.location, args.board \ {args.location})

\* C5: every generation iterate produces holds grid coordinates only,
\* whatever the initial board held.
C5_GenerationsInGrid ==
    /\ Called => last.val \subseteq Grid
    /\ gen >= 1 => heap[mainboard] \subseteq Grid

C5_Witness ==
    /\ gen >= 2
    /\ \E c \in heap[seed] : c \notin Grid
    /\ heap[mainboard] # {}

\* C6: iterate leaves the set it was passed as it was and returns a new
\* set; the module-level patterns never change; a second call on the same
\* board returns a set equal to the first.
C6_IterateLeavesInput ==
    /\ SubSeq(heap, 1, Len(Globals)) = Globals
    /\ Called => (last.post = last.pre /\ last.ret # last.arg)
    /\ (Called /\ before.of = last.of) => last.val = before.val

C6_Witness ==
    /\ Called
    /\ before.of = last.of
    /\ last.arg <= 4
    /\ last.val # last.pre

rotated == {<<0, 1>>, <<1, 1>>, <<2, 1>>}

\* C7: started from the blinker seed, every even generation is the seed
\* and every odd generation is the rotated form.
C7_BlinkerPeriodTwo ==
    heap[seed] = spinner =>
        heap[mainboard] = (IF gen % 2 = 0 THEN spinner ELSE rotated)

C7_Witness ==
    /\ gen = 2
    /\ mainboard # seed
    /\ last.pre = rotated
    /\ heap[mainboard] = {<<1, 0>>, <<1, 1>>, <<1, 2>>}

Enumerated == op \in {"get_neighbors", "neighbors_generator"}

\* C8 as stated: with bound <= 0 the neighbour enumeration fails with an
\* error and returns no coordinates.
C8_NonPositiveBoundFails ==
    (Enumerated /\ args.bound <= 0) => ret.err # "none"

\* C8 as amended: with bound = 0 the enumeration fails with
\* ZeroDivisionError; with bound < 0 it raises nothing and every component
\* of every coordinate returned lies in bound + 1 .. 0.
C8_ZeroBoundFailsNegativeWraps ==
    Enumerated =>
        /\ args.bound = 0 => ret = ZeroDivisionError
        /\ args.bound < 0 =>
              /\ ret.err = "none"
              /\ \A k \in 1 .. Len(ret.val) :
                    /\ ret.val[k][1] \in (args.bound + 1) .. 0
                    /\ ret.val[k][2] \in (args.bound + 1) .. 0

C8_Witness ==
    \/ /\ op = "get_neighbors"
       /\ args.bound = 0
       /\ ret.err = "ZeroDivisionError"
    \/ /\ op = "neighbors_generator"
       /\ args.bound = -3
       /\ args.location = <<0, 0>>
       /\ ret.err = "none"
       /\ ret.val[1] = <<-1, -1>>

\* C9: for every location and positive bound, neighbors_generator yields
\* the sequence get_neighbors returns.
C9_GeneratorLikeGetNeighbors ==
    (op = "neighbors_generator" /\ args.bound > 0) =>
        ret = get_neighbors(args.location, args.bound)

\* C10: shifting a board on the torus and then calling iterate gives the
\* set that iterate followed by the same shift gives.
C10_IterateCommutesWithShift ==
    (ret.shifted_then_iterated # NotRun /\ ret.iterated_then_shifted # NotRun) =>
        ret.shifted_then_iterated = ret.iterated_then_shifted

C10_Witness ==
    /\ args.board = spinner
    /\ args.shift = <<-1, -1>>
    /\ ret.shifted_then_iterated = Ok({<<BOUND - 1, 0>>, <<0, 0>>, <<1, 0>>})
    /\ ret.iterated_then_shifted = Ok({<<BOUND - 1, 0>>, <<0, 0>>, <<1, 0>>})

====
